---- MODULE Spec2Model ----
(***************************************************************************)
(* Model of stream3.py: the GPX point extractor (parse_gpx), the KML       *)
(* feature extractor (parse_kml), module 1 (media files joined to a geo    *)
(* file by name) and module 2 (bulk KML/GPX -> GeoJSON conversion).        *)
(*                                                                         *)
(* Python values are encoded as follows.  A str is a sequence of           *)
(* one-character strings; None is the one-element sequence PyNone, which   *)
(* is no str of the alphabet.  A float is an integer.  A dict is a record, *)
(* a list a sequence.                                                      *)
(***************************************************************************)
EXTENDS Integers, Sequences, FiniteSets, TLC

\* ---------------------------------------------------------------- bounds
MaxTracks == 2
MaxSegs == 2
MaxTrkPts == 2
MaxWpts == 1
MaxPlacemarks == 2
MaxGeoms == 2
MaxFiles == 2

\* ------------------------------------------------------- Python encoding
PyNone == <<"None">>

EmptyStr == <<>>

\* Python truthiness of an optional str: None and "" are falsy.
Truthy(v) == v /= PyNone /\ v /= EmptyStr

\* ----------------------------------------------------------------- names
N_a == <<"a", ".", "j", "p", "g">>
N_A == <<"A", ".", "j", "p", "g">>
N_da == <<"d", "/", "a", ".", "j", "p", "g">>

\* ------------------------------------------------------------ GPX inputs
\* gpxpy point objects: .name (None when the element has no <name>),
\* .latitude, .longitude.
GpxPoints ==
    { [name |-> PyNone, latitude |-> 1, longitude |-> 2],
      [name |-> N_a,    latitude |-> 3, longitude |-> 4],
      [name |-> N_da,   latitude |-> 5, longitude |-> 6] }

\* The points of the documents given to parse_gpx alone and to module 2.
BasicGpxPoints == { p \in GpxPoints : p.name \in {PyNone, N_a} }

\* All sequences of exactly n elements of S.
SeqsOfLen(S, n) == [1..n -> S]

\* All sequences of at most n elements of S.
SeqsUpTo(S, n) == UNION { SeqsOfLen(S, k) : k \in 0..n }

RECURSIVE Sum(_)
Sum(s) == IF s = <<>> THEN 0 ELSE Head(s) + Sum(Tail(s))

\* The shape of a track: the number of points of each of its segments.
TrackShapes(n) == { s \in SeqsUpTo(0..n, MaxSegs) : Sum(s) = n }

RECURSIVE DocShapes(_, _)
\* The shapes of k tracks holding n points in total.
DocShapes(k, n) ==
    IF k = 0
    THEN IF n = 0 THEN { <<>> } ELSE {}
    ELSE UNION { { <<t>> \o r : t \in TrackShapes(m), r \in DocShapes(k - 1, n - m) }
                 : m \in 0..n }

RECURSIVE FillSegs(_, _, _)
\* The segments of one track of shape sc, taking their points from f after off.
FillSegs(sc, f, off) ==
    IF sc = <<>> THEN <<>>
    ELSE <<[points |-> [i \in 1..Head(sc) |-> f[off + i]]]>>
         \o FillSegs(Tail(sc), f, off + Head(sc))

RECURSIVE FillTracks(_, _, _)
FillTracks(sh, f, off) ==
    IF sh = <<>> THEN <<>>
    ELSE <<[segments |-> FillSegs(Head(sh), f, off)]>>
         \o FillTracks(Tail(sh), f, off + Sum(Head(sh)))

\* A parsed GPX document (a gpxpy.parse result): tracks of segments of
\* points, and the waypoints.
GpxDoc(sh, f, wl) == [tracks |-> FillTracks(sh, f, 0), waypoints |-> wl]

\* input is a GPX document over the points P within the bounds.
GpxInput(doc, P) ==
    \E k \in 0..MaxTracks, n \in 0..MaxTrkPts :
      \E sh \in DocShapes(k, n), f \in [1..n -> P], wl \in SeqsUpTo(P, MaxWpts) :
        doc = GpxDoc(sh, f, wl)

\* ------------------------------------------------------------- parse_gpx
\* The dict appended for one point.
GeoPointOf(point) ==
    [name |-> IF Truthy(point.name) THEN point.name ELSE EmptyStr,
     lat  |-> point.latitude,
     lon  |-> point.longitude]

RECURSIVE AppendPoints(_, _)
\* for point in pts: points.append({...})
AppendPoints(points, pts) ==
    IF pts = <<>> THEN points
    ELSE AppendPoints(Append(points, GeoPointOf(Head(pts))), Tail(pts))

RECURSIVE AppendSegments(_, _)
\* for segment in segs: for point in segment.points: ...
AppendSegments(points, segs) ==
    IF segs = <<>> THEN points
    ELSE AppendSegments(AppendPoints(points, Head(segs).points), Tail(segs))

RECURSIVE AppendTracks(_, _)
\* for track in tracks: for segment in track.segments: ...
AppendTracks(points, tracks) ==
    IF tracks = <<>> THEN points
    ELSE AppendTracks(AppendSegments(points, Head(tracks).segments), Tail(tracks))

\* parse_gpx with the two loops in the other order.
parse_gpx_waypoints_first(gpx) ==
    AppendTracks(AppendPoints(<<>>, gpx.waypoints), gpx.tracks)

parse_gpx(gpx) == AppendPoints(AppendTracks(<<>>, gpx.tracks), gpx.waypoints)

\* ------------------------------------------------------------ KML inputs
\* The text of a coordinates element is None (ElementTree gives None for an
\* element without text) or a str over blanks, commas, digits and "x".
Digits == <<"0", "1", "2", "3", "4", "5", "6", "7", "8", "9">>

DigitVal(c) == (CHOOSE i \in 1..10 : Digits[i] = c) - 1

IsDigit(c) == \E i \in 1..10 : Digits[i] = c

T_None == PyNone
T_Blank == <<" ">>
T_Alt == <<"1", ",", "2", ",", "9">>
T_Lead == <<" ", "3", ",", "4">>
T_Bad == <<"x">>
T_One == <<"1", "2", ",", "3">>
T_Two == <<"5", ",", "6", " ", "7", ",", "8", ",", "9">>
T_Short == <<"1">>
T_Ring == <<"5", ",", "6", " ", "7", ",", "8", " ", "5", ",", "6">>

\* The geometry elements below a Placemark, each with the text of its
\* coordinates element (for a Polygon: of its outer boundary's LinearRing).
KmlGeoms ==
    { [kind |-> "Point", text |-> T_Alt],
      [kind |-> "Point", text |-> T_Lead],
      [kind |-> "Point", text |-> T_Bad],
      [kind |-> "LineString", text |-> T_None],
      [kind |-> "LineString", text |-> T_Blank],
      [kind |-> "LineString", text |-> T_One],
      [kind |-> "LineString", text |-> T_Two],
      [kind |-> "LineString", text |-> T_Short],
      [kind |-> "Polygon", text |-> T_Blank],
      [kind |-> "Polygon", text |-> T_Ring] }

\* The name child of a Placemark: <<>> when there is none (find returns
\* None), else <<text>>, the text being None for an element without text.
KmlNames == { <<>>, <<PyNone>>, <<N_a>> }

\* The sum of the first j elements of c.
PrefixSum(c, j) == Sum(SubSeq(c, 1, j))

\* A KML document: its Placemarks in document order, each with its name
\* child and its geometry elements in document order.
KmlDoc(counts, nm, g) ==
    [i \in 1..Len(counts) |->
        [name_elem |-> nm[i],
         geoms |-> [j \in 1..counts[i] |-> g[PrefixSum(counts, i - 1) + j]]]]

\* doc is a KML document over the names N and the geometry elements G
\* within the bounds.
KmlInput(doc, N, G) ==
    \E k \in 0..MaxPlacemarks, n \in 0..MaxGeoms :
      \E counts \in { c \in [1..k -> 0..n] : Sum(c) = n },
         nm \in [1..k -> N], g \in [1..n -> G] :
        doc = KmlDoc(counts, nm, g)

\* ------------------------------------------------------- str operations
RECURSIVE LStrip(_)
LStrip(s) == IF s /= <<>> /\ Head(s) = " " THEN LStrip(Tail(s)) ELSE s

RECURSIVE RStrip(_)
RStrip(s) ==
    IF s /= <<>> /\ s[Len(s)] = " " THEN RStrip(SubSeq(s, 1, Len(s) - 1)) ELSE s

\* str.strip()
Strip(s) == RStrip(LStrip(s))

RECURSIVE SplitOn(_, _, _, _)
\* str.split(sep) for a one-character sep: every field, empty ones too.
\* done are the finished fields, cur the field being read.
SplitOn(s, sep, done, cur) ==
    IF s = <<>> THEN Append(done, cur)
    ELSE IF Head(s) = sep THEN SplitOn(Tail(s), sep, Append(done, cur), <<>>)
    ELSE SplitOn(Tail(s), sep, done, Append(cur, Head(s)))

SplitComma(s) == SplitOn(s, ",", <<>>, <<>>)

\* str.split(): the maximal runs of non-blank characters.
SplitWs(s) == SelectSeq(SplitOn(s, " ", <<>>, <<>>), LAMBDA f : f /= <<>>)

RECURSIVE Decimal(_, _)
Decimal(s, acc) ==
    IF s = <<>> THEN acc ELSE Decimal(Tail(s), 10 * acc + DigitVal(Head(s)))

\* float(s): surrounding blanks are ignored; anything but a non-empty run
\* of digits raises ValueError.
FloatOk(s) == Strip(s) /= <<>> /\ \A i \in 1..Len(Strip(s)) : IsDigit(Strip(s)[i])

Float(s) == Decimal(Strip(s), 0)

\* lon, lat, *_ = map(float, c.split(',')) raises ValueError when a field is
\* no number or there are fewer than two fields.
PairOk(c) ==
    LET fs == SplitComma(c)
    IN  Len(fs) >= 2 /\ \A i \in 1..Len(fs) : FloatOk(fs[i])

Pair(c) == LET fs == SplitComma(c) IN <<Float(fs[1]), Float(fs[2])>>

\* ------------------------------------------------------------- parse_kml
Feature(gtype, coords, name) ==
    [type |-> "Feature",
     geometry |-> [type |-> gtype, coordinates |-> coords],
     properties |-> [name |-> name]]

Raise(acc, e) == [acc EXCEPT !.error = e]

\* coords of one LineString or ring: one pair for each blank-separated tuple.
CoordsOk(text) ==
    LET cs == SplitWs(Strip(text)) IN \A i \in 1..Len(cs) : PairOk(cs[i])

Coords(text) ==
    LET cs == SplitWs(Strip(text)) IN [i \in 1..Len(cs) |-> Pair(cs[i])]

\* The texts of the model, and what the two ways of reading a text give for
\* each of them (each text is read once, whatever the number of documents).
KmlTexts == { g.text : g \in KmlGeoms } \ {PyNone}

PointRead ==
    [t \in KmlTexts |->
       [ok |-> PairOk(Strip(t)),
        pair |-> IF PairOk(Strip(t)) THEN Pair(Strip(t)) ELSE <<>>]]

CoordsRead ==
    [t \in KmlTexts |->
       [ok |-> CoordsOk(t),
        coords |-> IF CoordsOk(t) THEN Coords(t) ELSE <<>>]]

\* The Point of a Placemark: only the first one in document order (find).
AddPoint(acc, geoms, name) ==
    LET pts == SelectSeq(geoms, LAMBDA g : g.kind = "Point")
    IN  IF acc.error /= "none" \/ pts = <<>> THEN acc
        ELSE IF pts[1].text = PyNone THEN Raise(acc, "AttributeError")
        ELSE IF ~PointRead[pts[1].text].ok THEN Raise(acc, "ValueError")
        ELSE [acc EXCEPT !.features =
                Append(@, Feature("Point", PointRead[pts[1].text].pair, name))]

RECURSIVE AddLines(_, _, _)
\* for line in placemark.findall('.//kml:LineString/kml:coordinates')
AddLines(acc, lines, name) ==
    IF acc.error /= "none" \/ lines = <<>> THEN acc
    ELSE LET text == Head(lines).text
             step == IF text = PyNone THEN Raise(acc, "AttributeError")
                     ELSE IF ~CoordsRead[text].ok THEN Raise(acc, "ValueError")
                     ELSE IF CoordsRead[text].coords /= <<>>
                     THEN [acc EXCEPT !.features =
                             Append(@, Feature("LineString", CoordsRead[text].coords, name))]
                     ELSE acc
         IN  AddLines(step, Tail(lines), name)

RECURSIVE AddPolys(_, _, _)
\* for poly in placemark.findall('.//kml:Polygon/kml:outerBoundaryIs/...')
AddPolys(acc, polys, name) ==
    IF acc.error /= "none" \/ polys = <<>> THEN acc
    ELSE LET text == Head(polys).text
             step == IF text = PyNone THEN Raise(acc, "AttributeError")
                     ELSE IF ~CoordsRead[text].ok THEN Raise(acc, "ValueError")
                     ELSE IF CoordsRead[text].coords /= <<>>
                     THEN [acc EXCEPT !.features =
                             Append(@, Feature("Polygon", <<CoordsRead[text].coords>>, name))]
                     ELSE acc
         IN  AddPolys(step, Tail(polys), name)

\* name = name_elem.text if name_elem is not None else ""
PlacemarkName(pm) == IF pm.name_elem = <<>> THEN EmptyStr ELSE pm.name_elem[1]

\* The body of the Placemark loop.
AddPlacemark(acc, pm) ==
    LET name == PlacemarkName(pm)
        lines == SelectSeq(pm.geoms, LAMBDA g : g.kind = "LineString")
        polys == SelectSeq(pm.geoms, LAMBDA g : g.kind = "Polygon")
    IN  AddPolys(AddLines(AddPoint(acc, pm.geoms, name), lines, name), polys, name)

RECURSIVE AddPlacemarks(_, _)
AddPlacemarks(acc, pms) ==
    IF acc.error /= "none" \/ pms = <<>> THEN acc
    ELSE AddPlacemarks(AddPlacemark(acc, Head(pms)), Tail(pms))

\* The outcome of parse_kml: the features returned, or the exception raised
\* (features then holds what had been collected, which no caller sees).
parse_kml(doc) == AddPlacemarks([error |-> "none", features |-> <<>>], doc)

\* ----------------------------------------------------------------- state
VARIABLES
    pc,              \* position of the run
    file_type,       \* module 1: the selected geolocation file type
    input,           \* the uploaded geo document
    uploaded_files,  \* module 1: the uploaded media files
    geo_points,      \* module 1: the parsed records
    geo_dict,        \* module 1: the lookup by name
    idx,             \* module 1: the number of media files handled
    shown,           \* module 1: what each handled media file was given
    convert_ext,     \* module 2: the extension of the uploaded file's name
    error,           \* the exception that ended the run, or "none"
    result           \* what a parser returned, or what module 2 offers

vars == <<pc, file_type, input, uploaded_files, geo_points, geo_dict, idx, shown,
          convert_ext, error, result>>

m1vars == <<file_type, uploaded_files, geo_points, geo_dict, idx, shown>>

othervars == <<m1vars, convert_ext>>

NoModule1 ==
    /\ file_type = "none"
    /\ uploaded_files = <<>>
    /\ geo_points = <<>>
    /\ geo_dict = <<>>
    /\ idx = 0
    /\ shown = <<>>

\* ------------------------------------------------- parse_gpx as a program
InitGpx ==
    /\ pc = "start"
    /\ GpxInput(input, BasicGpxPoints)
    /\ result = <<>>
    /\ error = "none"
    /\ NoModule1
    /\ convert_ext = "none"

RunParseGpx ==
    /\ pc = "start"
    /\ result' = parse_gpx(input)
    /\ pc' = "returned"
    /\ UNCHANGED <<input, error, othervars>>

NextGpx == RunParseGpx

SpecGpx == InitGpx /\ [][NextGpx]_vars

\* ------------------------------------------------- parse_kml as a program
InitKml ==
    /\ pc = "start"
    /\ KmlInput(input, KmlNames, KmlGeoms)
    /\ result = <<>>
    /\ error = "none"
    /\ NoModule1
    /\ convert_ext = "none"

RunParseKml ==
    /\ pc = "start"
    /\ \E r \in { parse_kml(input) } :
           /\ error' = r.error
           /\ result' = IF r.error = "none" THEN r.features ELSE <<>>
           /\ pc' = IF r.error = "none" THEN "returned" ELSE "raised"
    /\ UNCHANGED <<input, othervars>>

NextKml == RunParseKml

SpecKml == InitKml /\ [][NextKml]_vars

\* ---------------------------------------------------------------- module 2
\* str.lower() on the extensions the uploader lets through.
Lower(ext) ==
    CASE ext = ".GPX" -> ".gpx"
      [] ext = ".KML" -> ".kml"
      [] OTHER -> ext

\* PointFeature with latitude first.
PointFeature_lat_first(p) == Feature("Point", <<p.lat, p.lon>>, p.name)

\* The Point Feature module 2 builds from one parse_gpx record.
PointFeature(p) == Feature("Point", <<p.lon, p.lat>>, p.name)

BulkKmlGeoms == { g \in KmlGeoms : g.text \in {T_Alt, T_Blank, T_Two, T_Ring, T_Bad} }

\* convert_file: the extension of its name and its parsed content.
InitBulk ==
    /\ pc = "start"
    /\ \/ convert_ext \in {".gpx", ".GPX"} /\ GpxInput(input, BasicGpxPoints)
       \/ convert_ext = ".kml" /\ KmlInput(input, KmlNames, BulkKmlGeoms)
    /\ result = <<>>
    /\ error = "none"
    /\ NoModule1

\* What module 2 shows for the extracted features.
BulkResult(features) ==
    IF features = <<>>
    THEN [kind |-> "warning"]
    ELSE [kind |-> "download",
          geojson |-> [type |-> "FeatureCollection", features |-> features]]

\* The body of "if convert_file:".
Convert ==
    /\ pc = "start"
    /\ \E ext \in { Lower(convert_ext) } :
         IF ext = ".gpx"
         THEN \E raw \in { parse_gpx(input) } :
                /\ result' = BulkResult([i \in 1..Len(raw) |-> PointFeature(raw[i])])
                /\ pc' = "done"
                /\ error' = "none"
         ELSE IF ext = ".kml"
         THEN \E kml \in { parse_kml(input) } :
                IF kml.error /= "none"
                THEN /\ error' = kml.error
                     /\ pc' = "raised"
                     /\ UNCHANGED result
                ELSE /\ result' = BulkResult(kml.features)
                     /\ pc' = "done"
                     /\ error' = "none"
         ELSE /\ result' = BulkResult(<<>>)
              /\ pc' = "done"
              /\ error' = "none"
    /\ UNCHANGED <<input, othervars>>

NextBulk == Convert

SpecBulk == InitBulk /\ [][NextBulk]_vars

\* ---------------------------------------------------------------- module 1
\* Basename that leaves the directories in place.
Basename_whole(s) == s

RECURSIVE Basename(_)
\* os.path.basename: what follows the last "/".
Basename(s) ==
    IF \E i \in 1..Len(s) : s[i] = "/" THEN Basename(Tail(s)) ELSE s

\* p["properties"]["name"] if "properties" in p else p["name"]
RecordName(p) == IF "properties" \in DOMAIN p THEN p.properties.name ELSE p.name

\* ("properties" in p and "name" in p["properties"]) or "name" in p
HasNameKey(p) ==
    \/ "properties" \in DOMAIN p /\ "name" \in DOMAIN p.properties
    \/ "name" \in DOMAIN p

\* Put that keeps the value a key already has.
Put_keep_first(d, k, v) ==
    [x \in DOMAIN d \cup {k} |-> IF x \in DOMAIN d THEN d[x] ELSE v]

\* d[k] = v
Put(d, k, v) == [x \in DOMAIN d \cup {k} |-> IF x = k THEN v ELSE d[x]]

RECURSIVE BuildDict(_, _)
\* The dict comprehension over the records ps, continuing from acc:
\* a later record replaces an earlier one under the same key, and
\* os.path.basename(None) raises TypeError.
BuildDict(acc, ps) ==
    IF acc.error /= "none" \/ ps = <<>> THEN acc
    ELSE LET p == Head(ps)
         IN  IF ~HasNameKey(p) THEN BuildDict(acc, Tail(ps))
             ELSE IF RecordName(p) = PyNone
             THEN [acc EXCEPT !.error = "TypeError"]
             ELSE BuildDict([acc EXCEPT !.dict = Put(@, Basename(RecordName(p)), p)],
                            Tail(ps))

MediaFiles ==
    { [name |-> N_a, type |-> "image/jpeg"],
      [name |-> N_A, type |-> "video/mp4"] }

M1KmlNames == { <<>>, <<PyNone>>, <<N_da>> }

M1KmlGeoms == { g \in KmlGeoms : g.text \in {T_Alt, T_One, T_Two, T_Ring} }

\* GPX documents of one track of one segment, and waypoints.
M1GpxInput(doc, P) ==
    \E tp \in SeqsUpTo(P, MaxTrkPts), wl \in SeqsUpTo(P, MaxWpts) :
        doc = GpxDoc(<< <<Len(tp)>> >>, tp, wl)

Init ==
    /\ pc = "start"
    /\ \/ file_type = "GPX" /\ M1GpxInput(input, GpxPoints)
       \/ file_type = "KML" /\ KmlInput(input, M1KmlNames, M1KmlGeoms)
    /\ uploaded_files \in SeqsUpTo(MediaFiles, MaxFiles)
    /\ geo_points = <<>>
    /\ geo_dict = <<>>
    /\ idx = 0
    /\ shown = <<>>
    /\ convert_ext = "none"
    /\ error = "none"
    /\ result = <<>>

\* "if uploaded_files and geo_file" is false: the run shows nothing.
M1Idle ==
    /\ pc = "start"
    /\ uploaded_files = <<>>
    /\ pc' = "done"
    /\ UNCHANGED <<input, othervars, error, result>>

\* The geo file is parsed and the lookup built.
M1Start ==
    /\ pc = "start"
    /\ uploaded_files /= <<>>
    /\ \E parsed \in { IF file_type = "GPX"
                       THEN [error |-> "none", features |-> parse_gpx(input)]
                       ELSE parse_kml(input) } :
       \E built \in { BuildDict([error |-> "none", dict |-> <<>>], parsed.features) } :
         IF parsed.error /= "none"
         THEN /\ pc' = "raised"
              /\ error' = parsed.error
              /\ UNCHANGED <<geo_points, geo_dict>>
         ELSE IF parsed.features = <<>>
         THEN /\ pc' = "warned"
              /\ geo_points' = parsed.features
              /\ UNCHANGED <<geo_dict, error>>
         ELSE IF built.error /= "none"
         THEN /\ pc' = "raised"
              /\ error' = built.error
              /\ geo_points' = parsed.features
              /\ UNCHANGED geo_dict
         ELSE /\ pc' = "loop"
              /\ geo_points' = parsed.features
              /\ geo_dict' = built.dict
              /\ UNCHANGED error
    /\ UNCHANGED <<file_type, input, uploaded_files, idx, shown, convert_ext, result>>

\* One pass of "for idx, file in enumerate(uploaded_files)".  match is truthy
\* whenever the key is found (a record is a non-empty dict); lat, lon are
\* coords[1] and coords[0], whatever the geometry; what is offered for
\* download is json.dumps(match).  The preview widgets are left out.
M1File ==
    /\ pc = "loop"
    /\ idx < Len(uploaded_files)
    /\ LET file == uploaded_files[idx + 1]
           found == file.name \in DOMAIN geo_dict
           match == geo_dict[file.name]
       IN  IF ~found
           THEN /\ shown' = Append(shown, [kind |-> "not_found", file |-> file.name])
                /\ idx' = idx + 1
                /\ pc' = IF idx + 1 = Len(uploaded_files) THEN "done" ELSE "loop"
                /\ UNCHANGED error
           ELSE IF "geometry" \notin DOMAIN match
           THEN /\ pc' = "raised"
                /\ error' = "KeyError"
                /\ UNCHANGED <<idx, shown>>
           ELSE IF Len(match.geometry.coordinates) < 2
           THEN /\ pc' = "raised"
                /\ error' = "IndexError"
                /\ UNCHANGED <<idx, shown>>
           ELSE /\ shown' = Append(shown,
                                   [kind |-> "geojson",
                                    file |-> file.name,
                                    lat |-> match.geometry.coordinates[2],
                                    lon |-> match.geometry.coordinates[1],
                                    data |-> match])
                /\ idx' = idx + 1
                /\ pc' = IF idx + 1 = Len(uploaded_files) THEN "done" ELSE "loop"
                /\ UNCHANGED error
    /\ UNCHANGED <<file_type, input, uploaded_files, geo_points, geo_dict,
                   convert_ext, result>>

Next == M1Idle \/ M1Start \/ M1File

Spec == Init /\ [][Next]_vars

\* =================================================================== claims

\* ------------------------------------------------------------------- C5
\* The number of points of a track, counted segment by segment.
TrackSize(tr) == Sum([s \in 1..Len(tr.segments) |-> Len(tr.segments[s].points)])

\* The number of track points of the document.
TrackPointCount(gpx) == Sum([t \in 1..Len(gpx.tracks) |-> TrackSize(gpx.tracks[t])])

\* The number of track points that precede, in track -> segment -> point
\* order, the points of segment s of track t.
PointsBefore(gpx, t, s) ==
    Sum([u \in 1..(t - 1) |-> TrackSize(gpx.tracks[u])])
    + Sum([v \in 1..(s - 1) |-> Len(gpx.tracks[t].segments[v].points)])

\* The record the claim expects for a source point.
ExpectedGeoPoint(point) ==
    [name |-> IF point.name = PyNone THEN EmptyStr ELSE point.name,
     lat |-> point.latitude,
     lon |-> point.longitude]

Thm_C6_BulkOrder ==
    pc = "done" =>
      IF Lower(convert_ext) = ".gpx"
      THEN LET raw == parse_gpx(input)
           IN  raw /= <<>> =>
                 /\ result.kind = "download"
                 /\ result.geojson.type = "FeatureCollection"
                 /\ Len(result.geojson.features) = Len(raw)
                 /\ \A i \in 1..Len(raw) :
                      LET f == result.geojson.features[i]
                      IN  /\ f.type = "Feature"
                          /\ f.geometry.type = "Point"
                          /\ f.geometry.coordinates = <<raw[i].lon, raw[i].lat>>
                          /\ f.properties.name = raw[i].name
      ELSE LET kml == parse_kml(input).features
           IN  kml /= <<>> =>
                 /\ result.kind = "download"
                 /\ result.geojson.type = "FeatureCollection"
                 /\ Len(result.geojson.features) = Len(kml)
                 /\ \A i \in 1..Len(kml) : result.geojson.features[i] = kml[i]

\* A GPX file of two different points has been converted.
Wit_C6_BulkOrder ==
    /\ pc = "done"
    /\ convert_ext = ".GPX"
    /\ result.kind = "download"
    /\ Len(result.geojson.features) = 2
    /\ result.geojson.features[1].geometry.coordinates = <<4, 3>>
    /\ result.geojson.features[2].geometry.coordinates = <<2, 1>>

\* ------------------------------------------------------------------- C7
\* The texts of the model that are no coordinate tuples.
Malformed(g) == g.text \in {T_Bad, T_Short}

\* An empty or whitespace-only coordinates element.
EmptyOrBlank(g) == g.text = PyNone \/ Strip(g.text) = <<>>

AllGeoms(doc) ==
    UNION { { doc[i].geoms[j] : j \in 1..Len(doc[i].geoms) } : i \in 1..Len(doc) }

\* The number of elements of kind k of the document that have coordinates.
Filled(doc, k) ==
    Sum([i \in 1..Len(doc) |->
           Len(SelectSeq(doc[i].geoms, LAMBDA g : g.kind = k /\ ~EmptyOrBlank(g)))])

\* The number of Features of geometry type k.
FeatureCount(fs, k) == Len(SelectSeq(fs, LAMBDA f : f.geometry.type = k))

\* C7: an empty or whitespace-only LineString or Polygon coordinates
\* element yields no Feature and extraction goes on; no LineString Feature
\* has an empty coordinates list and no Polygon Feature an empty outer ring.
CE_C7_EmptyCoordinates ==
    (pc /= "start" /\ \A g \in AllGeoms(input) : ~Malformed(g)) =>
      /\ pc = "returned"
      /\ FeatureCount(result, "LineString") = Filled(input, "LineString")
      /\ FeatureCount(result, "Polygon") = Filled(input, "Polygon")
      /\ \A i \in 1..Len(result) :
           /\ result[i].geometry.type = "LineString"
                => result[i].geometry.coordinates /= <<>>
           /\ result[i].geometry.type = "Polygon"
                => result[i].geometry.coordinates[1] /= <<>>

\* ------------------------------------------------------------------ C10
\* The name the claim gives the Features of a Placemark.
ClaimedName(pm) ==
    IF pm.name_elem = <<>> \/ pm.name_elem[1] = PyNone THEN EmptyStr
    ELSE pm.name_elem[1]

\* The number of Features the Placemarks before the i-th one yield.
FeaturesBefore(doc, i) ==
    Sum([u \in 1..(i - 1) |-> Len(parse_kml(<<doc[u]>>).features)])

\* C10: every Feature parse_kml returns has a str as properties.name, the
\* text of the Placemark's name child or "" when there is no name text, the
\* same for all Features of one Placemark.
CE_C10_NameIsString ==
    pc = "returned" =>
      \A i \in 1..Len(input) :
        \A j \in 1..Len(parse_kml(<<input[i]>>).features) :
          LET f == result[FeaturesBefore(input, i) + j]
          IN  /\ f.properties.name /= PyNone
              /\ f.properties.name = ClaimedName(input[i])

\* ------------------------------------------------------------------- C8
\* C8: the lookup has no entry for a record whose name is empty or absent
\* (the empty string is no key), and building it never fails on such a name.
CE_C8_NoEmptyKey ==
    /\ error /= "TypeError"
    /\ EmptyStr \notin DOMAIN geo_dict

\* ------------------------------------------------------------------- C1
\* C1: the GeoJSON offered for a matched media file is a FeatureCollection
\* whose features list holds exactly the matched Feature.
CE_C1_SingleFeatureCollection ==
    \A i \in 1..Len(shown) :
      shown[i].kind = "geojson" =>
        /\ shown[i].data.type = "FeatureCollection"
        /\ "features" \in DOMAIN shown[i].data
        /\ Len(shown[i].data.features) = 1
        /\ shown[i].data.features[1] = geo_dict[shown[i].file]

\* ------------------------------------------------------------------- C2
\* b is the basename of s: s without its directories.
IsBasenameOf(b, s) ==
    /\ \A i \in 1..Len(b) : b[i] /= "/"
    /\ Len(b) <= Len(s)
    /\ SubSeq(s, Len(s) - Len(b) + 1, Len(s)) = b
    /\ (Len(b) < Len(s) => s[Len(s) - Len(b)] = "/")

\* The media file i names a record of the parsed list.
Named(i) ==
    \E r \in 1..Len(geo_points) :
      IsBasenameOf(uploaded_files[i].name, RecordName(geo_points[r]))

\* C2: with a GPX file, a media file named like a GeoPoint is given a Point
\* Feature [lon, lat] of that GeoPoint with the file's name and type as
\* filename and filetype, and nothing is raised.
CE_C2_GpxPointFeature ==
    file_type = "GPX" =>
      /\ error = "none"
      /\ \A i \in 1..Len(shown) :
           Named(i) =>
             /\ shown[i].kind = "geojson"
             /\ shown[i].data.type = "Feature"
             /\ "geometry" \in DOMAIN shown[i].data
             /\ shown[i].data.geometry.type = "Point"
             /\ \E r \in 1..Len(geo_points) :
                  /\ IsBasenameOf(uploaded_files[i].name, geo_points[r].name)
                  /\ shown[i].data.geometry.coordinates
                       = <<geo_points[r].lon, geo_points[r].lat>>
             /\ "filename" \in DOMAIN shown[i].data.properties
             /\ shown[i].data.properties.filename = uploaded_files[i].name
             /\ shown[i].data.properties.filetype = uploaded_files[i].type

\* ------------------------------------------------------------------- C3
\* The run has ended, in the loop over the media files or after it.
LoopEnded == pc = "done" \/ (pc = "raised" /\ error \in {"KeyError", "IndexError"})

\* C3: once a KML file has parsed to a non-empty record list and the lookup
\* is built, the run ends with exactly one outcome for every media file,
\* a GeoJSON or a not-found notice, whatever geometry the file matched.
CE_C3_EveryFileHandled ==
    (file_type = "KML" /\ LoopEnded /\ geo_points /= <<>>) =>
      /\ Len(shown) = Len(uploaded_files)
      /\ \A i \in 1..Len(uploaded_files) :
           /\ shown[i].file = uploaded_files[i].name
           /\ shown[i].kind \in {"geojson", "not_found"}

LastNamed(k) ==
    LET hits == { r \in 1..Len(geo_points) : IsBasenameOf(k, RecordName(geo_points[r])) }
    IN  IF hits = {} THEN 0 ELSE CHOOSE r \in hits : \A q \in hits : q <= r

\* C9: of records with the same basename the lookup holds the one that
\* comes last in the parsed list, and a media file of that name is matched
\* to it.
Thm_C9_LastRecordWins ==
    (pc \in {"loop", "done"} \/ LoopEnded) =>
      /\ \A k \in DOMAIN geo_dict :
           LastNamed(k) > 0 /\ geo_dict[k] = geo_points[LastNamed(k)]
      /\ \A i \in 1..Len(shown) :
           shown[i].kind = "geojson" =>
             shown[i].data = geo_points[LastNamed(uploaded_files[i].name)]

\* A file matched where an earlier, different record has the same basename.
Wit_C9_LastRecordWins ==
    /\ Len(shown) >= 1
    /\ shown[1].kind = "geojson"
    /\ LastNamed(shown[1].file) >= 2
    /\ \E q \in 1..(LastNamed(shown[1].file) - 1) :
         /\ IsBasenameOf(shown[1].file, RecordName(geo_points[q]))
         /\ geo_points[q] /= shown[1].data

====
